---------------------------- MODULE Spec2Model ----------------------------
(***************************************************************************)
(* The myFlix REST API: the users collection, the requests in flight and   *)
(* the route handlers of POST /users, PUT /users/:Username,                *)
(* POST and DELETE /users/:Username/movies/:MovieID, DELETE                *)
(* /users/:Username and the three protected movie lookups.                 *)
(*                                                                         *)
(* Strings the handlers inspect (usernames, passwords, e-mail addresses)   *)
(* are sequences of characters, so that length, character class and case   *)
(* are computed and not assumed.  The requests in flight are a bag; every  *)
(* store call of a handler is one step, so the steps of different          *)
(* requests interleave as the event loop lets them.                        *)
(***************************************************************************)
EXTENDS Integers, Sequences, FiniteSets, Bags, TLC

VARIABLES users, nextId, inflight, arrived, res

vars == <<users, nextId, inflight, arrived, res>>

(* ------------------------------ bounds -------------------------------- *)

MaxRequests == 3

MaxInFlight == 2

(* ------------------------------ strings ------------------------------- *)

Range(s) == {s[i] : i \in 1..Len(s)}

LowerCase == {"a", "b", "c", "e", "i", "l", "o"}

UpperCase == {"A"}

Digits == {"1", "3"}

alice == <<"a", "l", "i", "c", "e">>

Alice == <<"A", "l", "i", "c", "e">>

ValidNames == {alice, Alice}

ShortName == <<"b", "o", "b">>

SymbolName == <<"a", "l", "!", "c", "e">>

Secr3t == <<"S", "e", "c", "r", "3", "t">>

GoodEmail == <<"a", "@", "e", ".", "c">>

BadEmail == <<"a", "e", ".", "c">>

MovieIDs == {"m42", "m7"}

(* ------------------------- express-validator -------------------------- *)

isLength(s, min) == Len(s) >= min

isAlphanumeric(s) == Len(s) > 0 /\ Range(s) \subseteq (LowerCase \cup UpperCase \cup Digits)

isEmpty(s) == Len(s) = 0

isEmail(s) ==
    \E i \in 1..Len(s), j \in 1..Len(s) :
        /\ s[i] = "@" /\ s[j] = "."
        /\ 1 < i /\ i + 1 < j /\ j < Len(s)
        /\ \A k \in 1..Len(s) : s[k] = "@" => k = i

MinUsernameLength == 5

validationErrors(body) ==
    {e \in {"Username is required", "Username not alphanumeric",
            "Password is required", "Email not valid"} :
        \/ e = "Username is required" /\ ~isLength(body.Username, MinUsernameLength)
        \/ e = "Username not alphanumeric" /\ ~isAlphanumeric(body.Username)
        \/ e = "Password is required" /\ isEmpty(body.Password)
        \/ e = "Email not valid" /\ ~isEmail(body.Email)}

(* ----------------------------- documents ------------------------------ *)

NoDoc ==
    [_id |-> 0, Username |-> <<>>, Password |-> <<>>, Email |-> <<>>,
     Birthday |-> "", FavoriteMovies |-> <<>>]

NoBody == [Username |-> <<>>, Password |-> <<>>, Email |-> <<>>, Birthday |-> ""]

hashPassword(p) == <<"$2b$10$">> \o p

movies ==
    {[Title |-> "Up", Genre |-> [Name |-> "Animation"], Director |-> [Name |-> "Docter"]]}

lower(s) == [i \in 1..Len(s) |-> IF s[i] \in UpperCase THEN "a" ELSE s[i]]

(* A filter that compares usernames without regard to case.                 *)
MatchingIgnoreCase(name) == {u \in users : lower(u.Username) = lower(name)}

(* Users.findOne({Username: name}) and the filter of findOneAndUpdate and   *)
(* findOneAndRemove: the documents whose Username equals name exactly.      *)
Matching(name) == {u \in users : u.Username = name}

(* $push appends the value, present or not; $pull removes every occurrence. *)
push(fav, m) == Append(fav, m)

(* A removal of the first occurrence alone.                                 *)
pullFirst(fav, m) ==
    IF \E i \in 1..Len(fav) : fav[i] = m
    THEN LET k == CHOOSE i \in 1..Len(fav) : fav[i] = m /\ \A j \in 1..(i - 1) : fav[j] # m
         IN SubSeq(fav, 1, k - 1) \o SubSeq(fav, k + 1, Len(fav))
    ELSE fav

pull(fav, m) == SelectSeq(fav, LAMBDA x : x # m)

(* ------------------------------ requests ------------------------------ *)

(* A request as it arrives: the route, its path parameters and its body.    *)
(* The bearer token is read by the middleware alone and is not kept.        *)
NoUser == [_id |-> 0, Username |-> <<>>]

Request(op, username, movie, name, body) ==
    [op |-> op, Username |-> username, MovieID |-> movie, Name |-> name, body |-> body,
     pc |-> "received", auth |-> "Unauthenticated", user |-> NoUser]

SignUp(n) == [Username |-> n, Password |-> Secr3t, Email |-> GoodEmail, Birthday |-> "1990-01-01"]

Bodies ==
    {SignUp(n) : n \in ValidNames}
    \cup {SignUp(ShortName),
          [Username |-> SymbolName, Password |-> <<>>, Email |-> BadEmail, Birthday |-> ""]}

Tokens ==
    {[Username |-> n, kind |-> "valid"] : n \in ValidNames}
    \cup {[Username |-> alice, kind |-> "badsignature"], [Username |-> alice, kind |-> "expired"]}

LookupNames == {"Animation"}

Requests ==
    {Request("addUser", <<>>, "", "", b) : b \in Bodies}
    \cup {Request("updateUser", n, "", "", b) : n \in ValidNames, b \in Bodies}
    \cup {Request(o, n, m, "", NoBody) :
            o \in {"addFavorite", "deleteFavorite"}, n \in ValidNames, m \in MovieIDs}
    \cup {Request("deleteUser", n, "", "", NoBody) : n \in ValidNames}
    \cup {Request(o, <<>>, "", x, NoBody) :
            o \in {"getMovie", "getGenre", "getDirector"}, x \in LookupNames}

(* The protected routes had DELETE /users/:Username been registered         *)
(* without the middleware.                                                  *)
ProtectedButDeleteUser ==
    {"getMovie", "getGenre", "getDirector", "updateUser", "addFavorite", "deleteFavorite"}

(* The routes registered with passport.authenticate("jwt") before the      *)
(* handler.                                                                 *)
Protected ==
    {"getMovie", "getGenre", "getDirector", "updateUser", "addFavorite",
     "deleteFavorite", "deleteUser"}

(* The routes whose handler starts with the validationResult check.         *)
Validated == {"addUser", "updateUser"}

(* The last response sent and, for a store call that matched or created a   *)
(* document, that document before and after the call.                       *)
Response(r, status, before, after) ==
    [op |-> r.op, status |-> status, auth |-> r.auth, before |-> before, after |-> after]

NoResponse == [op |-> "none", status |-> 0, auth |-> "Unauthenticated", before |-> NoDoc, after |-> NoDoc]

(* The JWT strategy: signature and expiry, then the lookup of the token's   *)
(* user.                                                                    *)
verifyToken(t) ==
    IF t.kind = "badsignature" THEN "InvalidToken"
    ELSE IF t.kind = "expired" THEN "TokenExpired"
    ELSE IF Matching(t.Username) = {} THEN "StaleIdentity"
    ELSE "Valid"

(* What passport.authenticate leaves of request r carrying token t: the     *)
(* request rejected, or authenticated with req.user set to the document     *)
(* found, of which the handlers read the identity alone.                    *)
passportAuthenticate(r, t) ==
    IF verifyToken(t) # "Valid"
    THEN {[r EXCEPT !.pc = "rejected", !.auth = "Rejected"]}
    ELSE {[r EXCEPT !.pc = "handler", !.auth = "Authenticated", !.user = [_id |-> u._id, Username |-> u.Username]] :
            u \in Matching(t.Username)}

NewUser(id, body) ==
    [_id |-> id,
     Username |-> body.Username,
     Password |-> hashPassword(body.Password),
     Email |-> body.Email,
     Birthday |-> body.Birthday,
     FavoriteMovies |-> <<>>]

(* ------------------------------- state -------------------------------- *)

(* The database the server is started on: empty, or holding the accounts    *)
(* that earlier sign-ups created.                                           *)
Databases == {{}, {NewUser(1, SignUp(alice)), NewUser(2, SignUp(Alice))}}

Init ==
    /\ users \in Databases
    /\ nextId = Cardinality(users) + 1
    /\ inflight = EmptyBag
    /\ arrived = 0
    /\ res = NoResponse

InFlight == BagToSet(inflight)

Take(r) == inflight (-) SetToBag({r})

Reply(r, status, before, after) ==
    /\ res' = Response(r, status, before, after)
    /\ inflight' = Take(r)

(* A request arrives and runs what precedes its first store call: the       *)
(* passport middleware of a protected route, then the handler's             *)
(* validationResult check.                                                  *)
Receive(r, t) ==
    /\ arrived < MaxRequests
    /\ BagCardinality(inflight) < MaxInFlight
    /\ arrived' = arrived + 1
    /\ UNCHANGED <<users, nextId>>
    /\ \E a \in IF r.op \in Protected
                THEN passportAuthenticate(r, t)
                ELSE {[r EXCEPT !.pc = "handler"]} :
          IF a.auth = "Rejected"
          THEN res' = Response(a, 401, NoDoc, NoDoc) /\ UNCHANGED inflight
          ELSE IF a.op \in Validated /\ validationErrors(a.body) # {}
          THEN res' = Response(a, 422, NoDoc, NoDoc) /\ UNCHANGED inflight
          ELSE inflight' = inflight (+) SetToBag({a}) /\ UNCHANGED res

getMovie(r) ==
    /\ r.op = "getMovie" /\ r.pc = "handler"
    /\ Reply(r, 500, NoDoc, NoDoc)
    /\ UNCHANGED <<users, nextId, arrived>>

getGenre(r) ==
    /\ r.op = "getGenre" /\ r.pc = "handler"
    /\ IF \E m \in movies : m.Genre.Name = r.Name
       THEN Reply(r, 200, NoDoc, NoDoc)
       ELSE Reply(r, 500, NoDoc, NoDoc)
    /\ UNCHANGED <<users, nextId, arrived>>

getDirector(r) ==
    /\ r.op = "getDirector" /\ r.pc = "handler"
    /\ IF \E m \in movies : m.Director.Name = r.Name
       THEN Reply(r, 200, NoDoc, NoDoc)
       ELSE Reply(r, 500, NoDoc, NoDoc)
    /\ UNCHANGED <<users, nextId, arrived>>

(* POST /users: the answer of Users.findOne.                                *)
addUserFindOne(r) ==
    /\ r.op = "addUser" /\ r.pc = "handler"
    /\ UNCHANGED <<users, nextId, arrived>>
    /\ \/ \E u \in Matching(r.body.Username) : Reply(r, 400, u, u)
       \/ /\ Matching(r.body.Username) = {}
          /\ inflight' = Take(r) (+) SetToBag({[r EXCEPT !.pc = "create"]})
          /\ UNCHANGED res

(* POST /users: Users.create after findOne answered null.                   *)
addUserCreate(r) ==
    /\ r.op = "addUser" /\ r.pc = "create"
    /\ LET doc == NewUser(nextId, r.body)
       IN /\ users' = users \cup {doc}
          /\ nextId' = nextId + 1
          /\ Reply(r, 201, NoDoc, doc)
    /\ UNCHANGED arrived

updateUserSet(u, body) ==
    [u EXCEPT !.Username = body.Username, !.Password = body.Password,
              !.Email = body.Email, !.Birthday = body.Birthday]

updateUser(r) ==
    /\ r.op = "updateUser" /\ r.pc = "handler"
    /\ UNCHANGED <<nextId, arrived>>
    /\ \/ \E u \in Matching(r.Username) :
            LET v == updateUserSet(u, r.body)
            IN /\ users' = (users \ {u}) \cup {v}
               /\ Reply(r, 200, u, v)
       \/ /\ Matching(r.Username) = {}
          /\ Reply(r, 200, NoDoc, NoDoc)
          /\ UNCHANGED users

addFavoriteFilter(r) == r.user.Username

(* An update that $set the array to the one movie instead of $push.         *)
addFavoriteSet(u, r) == [u EXCEPT !.FavoriteMovies = <<r.MovieID>>]

addFavoriteUpdate(u, r) == [u EXCEPT !.FavoriteMovies = push(u.FavoriteMovies, r.MovieID)]

addFavorite(r) ==
    /\ r.op = "addFavorite" /\ r.pc = "handler"
    /\ UNCHANGED <<nextId, arrived>>
    /\ \/ \E u \in Matching(addFavoriteFilter(r)) :
            LET v == addFavoriteUpdate(u, r)
            IN /\ users' = (users \ {u}) \cup {v}
               /\ Reply(r, 200, u, v)
       \/ /\ Matching(addFavoriteFilter(r)) = {}
          /\ Reply(r, 200, NoDoc, NoDoc)
          /\ UNCHANGED users

deleteFavoriteUpdate(u, r) == [u EXCEPT !.FavoriteMovies = pull(u.FavoriteMovies, r.MovieID)]

deleteFavorite(r) ==
    /\ r.op = "deleteFavorite" /\ r.pc = "handler"
    /\ UNCHANGED <<nextId, arrived>>
    /\ \/ \E u \in Matching(r.Username) :
            LET v == deleteFavoriteUpdate(u, r)
            IN /\ users' = (users \ {u}) \cup {v}
               /\ Reply(r, 200, u, v)
       \/ /\ Matching(r.Username) = {}
          /\ Reply(r, 200, NoDoc, NoDoc)
          /\ UNCHANGED users

deleteUser(r) ==
    /\ r.op = "deleteUser" /\ r.pc = "handler"
    /\ UNCHANGED <<nextId, arrived>>
    /\ \/ \E u \in Matching(r.Username) :
            /\ users' = users \ {u}
            /\ Reply(r, 200, u, NoDoc)
       \/ /\ Matching(r.Username) = {}
          /\ Reply(r, 400, NoDoc, NoDoc)
          /\ UNCHANGED users

Next ==
    \/ \E r \in Requests, t \in Tokens : Receive(r, t)
    \/ \E r \in InFlight : getMovie(r)
    \/ \E r \in InFlight : getGenre(r)
    \/ \E r \in InFlight : getDirector(r)
    \/ \E r \in InFlight : addUserFindOne(r)
    \/ \E r \in InFlight : addUserCreate(r)
    \/ \E r \in InFlight : updateUser(r)
    \/ \E r \in InFlight : addFavorite(r)
    \/ \E r \in InFlight : deleteFavorite(r)
    \/ \E r \in InFlight : deleteUser(r)

Spec == Init /\ [][Next]_vars

(* ------------------------------ properties ---------------------------- *)

Count(s, x) == Cardinality({i \in 1..Len(s) : s[i] = x})

(* Request r is answered by its handler in this step.                       *)
Handled(r) == BagIn(r, inflight) /\ inflight' = Take(r)

(* Request r takes a step (is answered, or moves on to its next store call). *)
Stepped(r) == BagIn(r, inflight) /\ CopiesIn(r, inflight') < CopiesIn(r, inflight)

Exists(name) == \E u \in users : u.Username = name

(* C1: after any sequence of addFavorite and removeFavorite requests no     *)
(* user's FavoriteMovies holds a movie identifier more than once (a second  *)
(* addFavorite of the same movie adds nothing).                             *)
C1_NoDuplicateFavorites ==
    \A u \in users : \A m \in MovieIDs : Count(u.FavoriteMovies, m) <= 1

(* C2: the Password of every user record is the hash of a submitted         *)
(* password, never the submitted plaintext, after createUser and after      *)
(* updateUser alike.                                                        *)
C2_PasswordsAreHashed ==
    \A u \in users :
        /\ \E b \in Bodies : ~isEmpty(b.Password) /\ u.Password = hashPassword(b.Password)
        /\ \A b \in Bodies : u.Password # b.Password

(* C3: a mutation (addFavorite, removeFavorite, updateUser, deleteUser)     *)
(* changes a user record only when the identity resolved from the token     *)
(* equals the :Username path parameter.                                     *)
C3_MutationsOnlyOnOwnRecord ==
    [][\A r \in InFlight :
          (/\ r.op \in {"addFavorite", "deleteFavorite", "updateUser", "deleteUser"}
           /\ Handled(r)
           /\ users' # users)
          => r.user.Username = r.Username]_vars

C4_ProtectedOps ==
    {"addFavorite", "deleteFavorite", "getMovie", "getGenre", "getDirector",
     "updateUser", "deleteUser"}

(* C4: the handler of a protected operation runs only for a request whose   *)
(* authentication state is Authenticated, and the step that rejects a       *)
(* request (invalid, expired or stale token) leaves the users collection    *)
(* unchanged and puts nothing in flight.                                    *)
C4_HandlerOnlyWhenAuthenticated ==
    [][/\ \A r \in InFlight :
            r.op \in C4_ProtectedOps => r.auth = "Authenticated" /\ r.pc = "handler"
       /\ \A r \in InFlight :
            (r.op \in C4_ProtectedOps /\ Handled(r)) => res'.auth = "Authenticated"
       /\ (arrived' # arrived /\ inflight' = inflight)
            => /\ res'.auth = "Rejected" <=> res'.status = 401
               /\ res'.auth = "Rejected" => users' = users]_vars

(* A request was rejected while an authenticated mutation is in flight and  *)
(* the users it could have touched are still stored.                        *)
C4_Witness ==
    /\ res.op = "deleteUser" /\ res.status = 401 /\ res.auth = "Rejected"
    /\ users # {}
    /\ \E r \in InFlight : r.op = "deleteUser" /\ r.auth = "Authenticated"

(* C5: createUser whose username exactly (case-sensitively) matches a       *)
(* stored record answers 400 naming that username and leaves the users      *)
(* collection unchanged; when the lookup matches no record the request      *)
(* goes on to persist exactly one new record, under that username with the  *)
(* hashed password, and answers 201.                                        *)
C5_CreateUser ==
    [][\A r \in InFlight :
          /\ (r.op = "addUser" /\ r.pc = "handler" /\ Stepped(r)) =>
                /\ users' = users
                /\ IF Exists(r.body.Username)
                   THEN /\ Handled(r)
                        /\ res'.op = "addUser" /\ res'.status = 400
                        /\ res'.before.Username = r.body.Username
                   ELSE /\ BagIn([r EXCEPT !.pc = "create"], inflight')
                        /\ res' = res
          /\ (r.op = "addUser" /\ r.pc = "create" /\ Stepped(r)) =>
                /\ Handled(r)
                /\ users \subseteq users'
                /\ Cardinality(users') = Cardinality(users) + 1
                /\ \A d \in users' \ users :
                      /\ d.Username = r.body.Username
                      /\ d.Password = hashPassword(r.body.Password)
                      /\ d.FavoriteMovies = <<>>
                      /\ res'.after = d
                /\ res'.op = "addUser" /\ res'.status = 201]_vars

(* A sign-up was just refused as a duplicate while the other spelling of    *)
(* the name, differing in case only, is stored as a user of its own.        *)
C5_Witness ==
    /\ res.op = "addUser" /\ res.status = 400
    /\ res.before \in users
    /\ \E u \in users :
          u.Username # res.before.Username /\ lower(u.Username) = lower(res.before.Username)

(* C6: deleteUser of a username no record matches answers 400 and leaves    *)
(* the store unchanged; deleteUser of an existing user removes exactly that *)
(* record and answers 200, after which no record matches the username, so   *)
(* that a deleteUser repeated at once reports not-found.                    *)
C6_DeleteUser ==
    [][\A r \in InFlight :
          (r.op = "deleteUser" /\ Handled(r)) =>
              IF ~Exists(r.Username)
              THEN res'.status = 400 /\ users' = users
              ELSE /\ res'.status = 200
                   /\ \E u \in users : u.Username = r.Username /\ users' = users \ {u}
                   /\ \A v \in users' : v.Username # r.Username]_vars

(* C7: removeFavorite on an existing user answers 200; the movie no longer  *)
(* occurs in that record's favorites, however often it occurred; the other  *)
(* movies stay as they were; and when the movie was no member the users     *)
(* collection is unchanged.                                                 *)
C7_RemoveFavorite ==
    [][\A r \in InFlight :
          (r.op = "deleteFavorite" /\ Handled(r) /\ Exists(r.Username)) =>
              /\ res'.status = 200
              /\ \E u \in users :
                    /\ u.Username = r.Username
                    /\ res'.before = u
                    /\ users' = (users \ {u}) \cup {res'.after}
                    /\ \E f \in {res'.after.FavoriteMovies} :
                          /\ res'.after = [u EXCEPT !.FavoriteMovies = f]
                          /\ Count(f, r.MovieID) = 0
                          /\ \A x \in MovieIDs \ {r.MovieID} :
                                Count(f, x) = Count(u.FavoriteMovies, x)
                          /\ Count(u.FavoriteMovies, r.MovieID) = 0 => users' = users]_vars

(* A movie that had been added twice was removed by one removeFavorite.     *)
C7_Witness ==
    /\ res.op = "deleteFavorite" /\ res.status = 200
    /\ res.after \in users
    /\ \E m \in MovieIDs :
          Count(res.before.FavoriteMovies, m) = 2 /\ Count(res.after.FavoriteMovies, m) = 0

(* C8: updateUser whose :Username matches no user record answers with an   *)
(* error (NotFound), not a success, and leaves the users collection         *)
(* unchanged.                                                               *)
C8_UpdateMissingUserFails ==
    [][\A r \in InFlight :
          (r.op = "updateUser" /\ Handled(r) /\ ~Exists(r.Username)) =>
              res'.status >= 400 /\ users' = users]_vars

(* C9: every step applies at most one addFavorite or removeFavorite, to one *)
(* document, as the $push or $pull of its movie on the favorites stored at  *)
(* that moment; no other step changes the favorites of a document.  Any     *)
(* interleaving therefore ends with the operations applied one after        *)
(* another in the order their updates reached the store.                    *)
C9_FavoritesUpdatedAtomically ==
    [][LET changed == {u \in users : \E v \in users' :
                          v._id = u._id /\ v.FavoriteMovies # u.FavoriteMovies}
       IN /\ Cardinality(changed) <= 1
          /\ \A u \in changed :
                \E r \in InFlight :
                   /\ Handled(r)
                   /\ \/ /\ r.op = "addFavorite"
                         /\ users' = (users \ {u}) \cup
                               {[u EXCEPT !.FavoriteMovies = Append(u.FavoriteMovies, r.MovieID)]}
                      \/ /\ r.op = "deleteFavorite"
                         /\ users' = (users \ {u}) \cup
                               {[u EXCEPT !.FavoriteMovies =
                                   SelectSeq(u.FavoriteMovies, LAMBDA x : x # r.MovieID)]}
          /\ \A r \in InFlight :
                (r.op = "addFavorite" /\ Handled(r) /\ res'.before # NoDoc) =>
                    /\ res'.before \in users
                    /\ res'.after.FavoriteMovies =
                          Append(res'.before.FavoriteMovies, r.MovieID)
                    /\ users' = (users \ {res'.before}) \cup {res'.after}]_vars

(* An addFavorite was applied to a document that already held favorites     *)
(* while a removeFavorite of that user is in flight.                        *)
C9_Witness ==
    /\ res.op = "addFavorite" /\ res.status = 200
    /\ res.after \in users
    /\ Len(res.before.FavoriteMovies) > 0
    /\ \E r \in InFlight : r.op = "deleteFavorite" /\ r.Username = res.after.Username

(* C10: under any interleaving of createUser and updateUser requests no two *)
(* user records have the same Username.                                     *)
C10_UniqueUsernames ==
    \A u \in users : \A v \in users : u.Username = v.Username => u = v

=============================================================================
